---- MODULE Spec2Model ----
(***************************************************************************)
(* A model of flow_log_parser.py: FlowLogAnalyzer and main.                *)
(*                                                                         *)
(* Strings are sequences of code points (ASCII), so that str.lower(),      *)
(* str.isdigit(), int(), str.split() and the ordering used by sorted()     *)
(* are computed character by character as Python computes them.            *)
(* A dict is a function whose DOMAIN is the set of keys present.           *)
(***************************************************************************)
EXTENDS Integers, Sequences, FiniteSets, TLC

(***************************************************************************)
(* Bounds of the model.                                                    *)
(***************************************************************************)
MaxLines == 3        \* lines in a flow-log file
MaxLookupRows == 2   \* data rows in a lookup file
MaxProtoRows == 2    \* data rows in protocol_mappings.csv

(***************************************************************************)
(* String literals used by the program or by the sampled inputs.           *)
(***************************************************************************)
s_1 == <<49>>                                   \* "1"
s_2 == <<50>>                                   \* "2"
s_6 == <<54>>                                   \* "6"
s_17 == <<49, 55>>                              \* "17"
s_tcp == <<116, 99, 112>>                       \* "tcp"
s_TCP == <<84, 67, 80>>                         \* "TCP"
s_Tcp == <<84, 99, 112>>                        \* "Tcp"
s_udp == <<117, 100, 112>>                      \* "udp"
s_icmp == <<105, 99, 109, 112>>                 \* "icmp"
s_ICMP == <<73, 67, 77, 80>>                    \* "ICMP"
s_gre == <<103, 114, 101>>                      \* "gre"
s_47 == <<52, 55>>                              \* "47"
s_9 == <<57>>                                   \* "9"
s_23 == <<50, 51>>                              \* "23"
s_25 == <<50, 53>>                              \* "25"
s_443 == <<52, 52, 51>>                         \* "443"
s_p443 == <<43, 52, 52, 51>>                    \* "+443"
s_0443 == <<48, 52, 52, 51>>                    \* "0443"
s_0 == <<48>>                                   \* "0"
s_65535 == <<54, 53, 53, 51, 53>>               \* "65535"
s_65536 == <<54, 53, 53, 51, 54>>               \* "65536"
s_m1 == <<45, 49>>                              \* "-1"
s_http == <<104, 116, 116, 112>>                \* "http" (not a number)
s_x == <<120>>                                  \* "x"
s_Untagged == <<85, 110, 116, 97, 103, 103, 101, 100>>   \* "Untagged"
s_sv_P1 == <<115, 118, 95, 80, 49>>             \* "sv_P1"
s_sv_P2 == <<115, 118, 95, 80, 50>>             \* "sv_P2"
s_email == <<101, 109, 97, 105, 108>>           \* "email"

(***************************************************************************)
(* Python's str and int primitives.                                        *)
(***************************************************************************)
\* one character of str.lower()
LowerChar(c) == IF c >= 65 /\ c <= 90 THEN c + 32 ELSE c

\* str.lower()
Lower(s) == [i \in 1..Len(s) |-> LowerChar(s[i])]

IsDigitChar(c) == c >= 48 /\ c <= 57

\* str.isdigit(): non-empty and every character a digit
IsDigit(s) == Len(s) > 0 /\ \A i \in 1..Len(s) : IsDigitChar(s[i])

RECURSIVE DigitsValue(_)
\* the value of a string of decimal digits
DigitsValue(s) ==
    IF Len(s) = 0 THEN 0
    ELSE 10 * DigitsValue(SubSeq(s, 1, Len(s) - 1)) + (s[Len(s)] - 48)

\* int(s): an optional sign followed by decimal digits, else ValueError
PyInt(s) ==
    LET signed == Len(s) > 0 /\ (s[1] = 43 \/ s[1] = 45)
        digits == IF signed THEN SubSeq(s, 2, Len(s)) ELSE s
    IN  IF IsDigit(digits)
        THEN [ok |-> TRUE,
              value |-> IF signed /\ s[1] = 45 THEN 0 - DigitsValue(digits)
                        ELSE DigitsValue(digits)]
        ELSE [ok |-> FALSE, value |-> 0]

RECURSIVE PyStr(_)
\* str(n) / f"{n}": the decimal digits of an integer
PyStr(n) ==
    IF n < 0 THEN <<45>> \o PyStr(0 - n)
    ELSE IF n < 10 THEN <<48 + n>>
    ELSE PyStr(n \div 10) \o <<48 + (n % 10)>>

IsSpaceChar(c) == c = 32 \/ c = 9 \/ c = 10 \/ c = 13

RECURSIVE Strip(_)
\* str.strip()
Strip(s) ==
    IF Len(s) = 0 THEN s
    ELSE IF IsSpaceChar(s[1]) THEN Strip(Tail(s))
    ELSE IF IsSpaceChar(s[Len(s)]) THEN Strip(SubSeq(s, 1, Len(s) - 1))
    ELSE s

RECURSIVE SplitFrom(_, _, _, _)
\* str.split() scanning s from index i, with the fields found so far and the
\* index at which the field being read began (0 when between fields)
SplitFrom(s, i, fields, start) ==
    IF i > Len(s)
    THEN IF start = 0 THEN fields ELSE Append(fields, SubSeq(s, start, Len(s)))
    ELSE IF IsSpaceChar(s[i])
         THEN SplitFrom(s, i + 1,
                        IF start = 0 THEN fields ELSE Append(fields, SubSeq(s, start, i - 1)),
                        0)
         ELSE SplitFrom(s, i + 1, fields, IF start = 0 THEN i ELSE start)

\* str.split(): runs of whitespace separate the fields
Split(s) == SplitFrom(s, 1, <<>>, 0)

RECURSIVE StrLess(_, _)
\* s < t for Python strings: lexicographic by code point
StrLess(s, t) ==
    IF Len(t) = 0 THEN FALSE
    ELSE IF Len(s) = 0 THEN TRUE
    ELSE IF s[1] # t[1] THEN s[1] < t[1]
    ELSE StrLess(Tail(s), Tail(t))

(***************************************************************************)
(* dict and defaultdict(int).                                              *)
(***************************************************************************)
EmptyDict == [k \in {} |-> 0]

\* d[k] = v
DictSet(d, k, v) == [x \in (DOMAIN d) \cup {k} |-> IF x = k THEN v ELSE d[x]]

\* d.get(k, default)
DictGet(d, k, default) == IF k \in DOMAIN d THEN d[k] ELSE default

\* d[k] += 1 on a defaultdict(int)
DictIncr(d, k) == DictSet(d, k, DictGet(d, k, 0) + 1)

\* sum(d.values())
RECURSIVE SumValues(_)
SumValues(d) ==
    IF DOMAIN d = {} THEN 0
    ELSE LET k == CHOOSE x \in DOMAIN d : TRUE
         IN  d[k] + SumValues([x \in (DOMAIN d) \ {k} |-> d[x]])

(***************************************************************************)
(* FlowLogAnalyzer: class constants.                                       *)
(***************************************************************************)
\* DEFAULT_PROTOCOL_MAP = {'6': 'tcp', '17': 'udp', '1': 'icmp'}
DEFAULT_PROTOCOL_MAP == (s_6 :> s_tcp) @@ (s_17 :> s_udp) @@ (s_1 :> s_icmp)

MIN_FIELDS == 14

MAX_FILE_SIZE == 10 * 1024 * 1024

(***************************************************************************)
(* _load_protocol_mappings.  A protocol file is                            *)
(*   [exists : BOOLEAN, rows : Seq(row)]                                   *)
(* and a row is [raises, protocol_number, protocol_name]: raises marks a   *)
(* row at which reading throws (csv.Error, a decode error, or KeyError     *)
(* because the header lacks a column).                                     *)
(***************************************************************************)
RECURSIVE ReadProtocolRows(_, _)
\* the for loop of lines 39-41 over the rows still to read
ReadProtocolRows(rows, protocol_map) ==
    IF Len(rows) = 0 THEN [raised |-> FALSE, protocol_map |-> protocol_map]
    ELSE LET row == Head(rows)
         IN  IF row.raises
             THEN [raised |-> TRUE, protocol_map |-> protocol_map]
             ELSE ReadProtocolRows(Tail(rows),
                      DictSet(DictSet(protocol_map, row.protocol_number, row.protocol_name),
                              row.protocol_name, row.protocol_name))

\* load_protocol_mappings with the rows added to the built-in map (update in place of replace)
load_protocol_mappings_merge(protocol_file) ==
    IF protocol_file.exists
    THEN LET r == ReadProtocolRows(protocol_file.rows, DEFAULT_PROTOCOL_MAP)
         IN  IF r.raised THEN DEFAULT_PROTOCOL_MAP ELSE r.protocol_map
    ELSE DEFAULT_PROTOCOL_MAP

load_protocol_mappings(protocol_file) ==
    IF protocol_file.exists
    THEN LET r == ReadProtocolRows(protocol_file.rows, EmptyDict)
         IN  IF r.raised THEN DEFAULT_PROTOCOL_MAP ELSE r.protocol_map
    ELSE DEFAULT_PROTOCOL_MAP

(***************************************************************************)
(* _normalize_protocol                                                     *)
(***************************************************************************)
normalize_protocol(protocol_map, protocol) ==
    DictGet(protocol_map, Lower(protocol), Lower(protocol))

(***************************************************************************)
(* _load_lookup_file.  A lookup file is [exists, rows] and a row is        *)
(* [dstport, protocol, tag], the three columns as strings.                 *)
(***************************************************************************)
RECURSIVE ReadLookupRows_first_wins(_, _, _)
\* ReadLookupRows keeping the first tag of a key (setdefault in place of assignment)
ReadLookupRows_first_wins(rows, protocol_map, tag_mappings) ==
    IF Len(rows) = 0 THEN [raised |-> "", tag_mappings |-> tag_mappings]
    ELSE LET row == Head(rows)
             port == PyInt(row.dstport)
             protocol == normalize_protocol(protocol_map, row.protocol)
             key == <<port.value, protocol>>
         IN  IF ~port.ok
             THEN [raised |-> "ValueError", tag_mappings |-> tag_mappings]
             ELSE ReadLookupRows_first_wins(Tail(rows), protocol_map,
                      IF key \in DOMAIN tag_mappings THEN tag_mappings
                      ELSE DictSet(tag_mappings, key, row.tag))

RECURSIVE ReadLookupRows(_, _, _)
\* the for loop of lines 53-57 over the rows still to read
ReadLookupRows(rows, protocol_map, tag_mappings) ==
    IF Len(rows) = 0 THEN [raised |-> "", tag_mappings |-> tag_mappings]
    ELSE LET row == Head(rows)
             port == PyInt(row.dstport)
             protocol == normalize_protocol(protocol_map, row.protocol)
         IN  IF ~port.ok
             THEN [raised |-> "ValueError", tag_mappings |-> tag_mappings]
             ELSE ReadLookupRows(Tail(rows), protocol_map,
                      DictSet(tag_mappings, <<port.value, protocol>>, row.tag))

load_lookup_file(lookup_file, protocol_map) ==
    IF lookup_file.exists
    THEN ReadLookupRows(lookup_file.rows, protocol_map, EmptyDict)
    ELSE [raised |-> "FileNotFoundError", tag_mappings |-> EmptyDict]

(***************************************************************************)
(* _parse_flow_log_line: the (dst_port, protocol) returned, or the         *)
(* ValueError raised.                                                      *)
(***************************************************************************)
ParseError(why) == [ok |-> FALSE, dst_port |-> 0, protocol |-> <<>>, error |-> why]

parse_flow_log_line(protocol_map, line) ==
    LET fields == Split(Strip(line))
    IN  IF Len(fields) < MIN_FIELDS THEN ParseError("insufficient fields")
        ELSE IF fields[1] # s_2 THEN ParseError("version")
        ELSE LET dst_port == PyInt(fields[7])
                 protocol == fields[8]
             IN  IF ~dst_port.ok THEN ParseError("not an integer")
                 ELSE IF dst_port.value < 0 \/ dst_port.value > 65535
                      THEN ParseError("port number")
                 ELSE IF ~IsDigit(protocol) /\ Lower(protocol) \notin DOMAIN DEFAULT_PROTOCOL_MAP
                      THEN ParseError("unsupported protocol")
                 ELSE [ok |-> TRUE, dst_port |-> dst_port.value,
                       protocol |-> normalize_protocol(protocol_map, protocol),
                       error |-> ""]

(***************************************************************************)
(* analyze_logs: the body of the for loop (lines 128-135) on one line.     *)
(* counts is [tag_counts, combo_counts, warnings]: the two defaultdicts    *)
(* and the number of warnings printed to stderr.                           *)
(***************************************************************************)
NoCounts == [tag_counts |-> EmptyDict, combo_counts |-> EmptyDict, warnings |-> 0]

\* analyze_line with the tag counted only for keys the lookup table holds
analyze_line_tagged_only(protocol_map, tag_mappings, counts, line) ==
    LET r == parse_flow_log_line(protocol_map, line)
        key == <<r.dst_port, r.protocol>>
    IN  IF r.ok
        THEN [tag_counts |-> IF key \in DOMAIN tag_mappings
                             THEN DictIncr(counts.tag_counts, tag_mappings[key])
                             ELSE counts.tag_counts,
              combo_counts |-> DictIncr(counts.combo_counts, key),
              warnings |-> counts.warnings]
        ELSE [counts EXCEPT !.warnings = @ + 1]

\* analyze_line with a line that fails to parse counted as Untagged
analyze_line_invalid_untagged(protocol_map, tag_mappings, counts, line) ==
    LET r == parse_flow_log_line(protocol_map, line)
        key == <<r.dst_port, r.protocol>>
        tag == DictGet(tag_mappings, key, s_Untagged)
    IN  IF r.ok
        THEN [tag_counts |-> DictIncr(counts.tag_counts, tag),
              combo_counts |-> DictIncr(counts.combo_counts, key),
              warnings |-> counts.warnings]
        ELSE [tag_counts |-> DictIncr(counts.tag_counts, s_Untagged),
              combo_counts |-> counts.combo_counts,
              warnings |-> counts.warnings + 1]

\* analyze_line with combo_counts[key] = 1 in place of += 1
analyze_line_combo_assigned(protocol_map, tag_mappings, counts, line) ==
    LET r == parse_flow_log_line(protocol_map, line)
        key == <<r.dst_port, r.protocol>>
        tag == DictGet(tag_mappings, key, s_Untagged)
    IN  IF r.ok
        THEN [tag_counts |-> DictIncr(counts.tag_counts, tag),
              combo_counts |-> DictSet(counts.combo_counts, key, 1),
              warnings |-> counts.warnings]
        ELSE [counts EXCEPT !.warnings = @ + 1]

\* analyze_line with break in place of continue: nothing is counted after a warning
analyze_line_break(protocol_map, tag_mappings, counts, line) ==
    LET r == parse_flow_log_line(protocol_map, line)
        key == <<r.dst_port, r.protocol>>
        tag == DictGet(tag_mappings, key, s_Untagged)
    IN  IF counts.warnings > 0 THEN counts
        ELSE IF r.ok
        THEN [tag_counts |-> DictIncr(counts.tag_counts, tag),
              combo_counts |-> DictIncr(counts.combo_counts, key),
              warnings |-> counts.warnings]
        ELSE [counts EXCEPT !.warnings = @ + 1]

analyze_line(protocol_map, tag_mappings, counts, line) ==
    LET r == parse_flow_log_line(protocol_map, line)
        key == <<r.dst_port, r.protocol>>
        tag == DictGet(tag_mappings, key, s_Untagged)
    IN  IF r.ok
        THEN [tag_counts |-> DictIncr(counts.tag_counts, tag),
              combo_counts |-> DictIncr(counts.combo_counts, key),
              warnings |-> counts.warnings]
        ELSE [counts EXCEPT !.warnings = @ + 1]

RECURSIVE AnalyzeFrom(_, _, _, _)
\* the for loop of lines 127-135 over the lines still to read
AnalyzeFrom(protocol_map, tag_mappings, counts, lines) ==
    IF Len(lines) = 0 THEN counts
    ELSE AnalyzeFrom(protocol_map, tag_mappings,
                     analyze_line(protocol_map, tag_mappings, counts, Head(lines)),
                     Tail(lines))

\* what analyze_logs returns for a flow log holding these lines
analyze_lines(protocol_map, tag_mappings, lines) ==
    AnalyzeFrom(protocol_map, tag_mappings, NoCounts, lines)

(***************************************************************************)
(* write_results: the lines written to the output file.  A line is         *)
(* [text, fields]: a fixed header text, or the values joined by commas.    *)
(***************************************************************************)
HeaderLine(text) == [text |-> text, fields |-> <<>>]

DataLine(fields) == [text |-> "", fields |-> fields]

\* dict.items()
Items(d) == {<<k, d[k]>> : k \in DOMAIN d}

\* (tag, count) < (tag', count') as Python compares tuples
TagItemLess(a, b) == StrLess(a[1], b[1]) \/ (a[1] = b[1] /\ a[2] < b[2])

\* ComboItemLess with the port compared as text, as if the key held the field unconverted
ComboItemLess_port_as_text(a, b) ==
    \/ StrLess(PyStr(a[1][1]), PyStr(b[1][1]))
    \/ a[1][1] = b[1][1] /\ StrLess(a[1][2], b[1][2])
    \/ a[1] = b[1] /\ a[2] < b[2]

\* ((port, protocol), count) < ((port', protocol'), count') as Python compares tuples
ComboItemLess(a, b) ==
    \/ a[1][1] < b[1][1]
    \/ a[1][1] = b[1][1] /\ StrLess(a[1][2], b[1][2])
    \/ a[1] = b[1] /\ a[2] < b[2]

RECURSIVE SortedTagItems(_)
\* sorted(tag_counts.items())
SortedTagItems(items) ==
    IF items = {} THEN <<>>
    ELSE LET m == CHOOSE x \in items : \A y \in items \ {x} : TagItemLess(x, y)
         IN  <<m>> \o SortedTagItems(items \ {m})

RECURSIVE SortedComboItems(_)
\* sorted(combo_counts.items())
SortedComboItems(items) ==
    IF items = {} THEN <<>>
    ELSE LET m == CHOOSE x \in items : \A y \in items \ {x} : ComboItemLess(x, y)
         IN  <<m>> \o SortedComboItems(items \ {m})

\* f"{tag},{count}\n"
TagRow(item) == DataLine(<<item[1], PyStr(item[2])>>)

\* f"{port},{protocol},{count}\n"
ComboRow(item) == DataLine(<<PyStr(item[1][1]), item[1][2], PyStr(item[2])>>)

write_results(tag_counts, combo_counts) ==
    LET tags == SortedTagItems(Items(tag_counts))
        combos == SortedComboItems(Items(combo_counts))
    IN  <<HeaderLine("Tag Counts:"), HeaderLine("Tag,Count")>>
        \o [i \in 1..Len(tags) |-> TagRow(tags[i])]
        \o <<HeaderLine(""), HeaderLine("Port/Protocol Combination Counts:"),
             HeaderLine("Port,Protocol,Count")>>
        \o [i \in 1..Len(combos) |-> ComboRow(combos[i])]

(***************************************************************************)
(* The state of one run of main.                                           *)
(***************************************************************************)
VARIABLES
    argc,            \* len(sys.argv)
    protocol_file,   \* protocol_mappings.csv in the working directory
    lookup_file,     \* the file named by sys.argv[1]
    flow_log_file,   \* the file named by sys.argv[2]: [exists, size, lines]
    output_writable, \* whether sys.argv[3] can be opened for writing
    pc,              \* where main is
    protocol_map,    \* self.protocol_map
    tag_mappings,    \* self.tag_mappings
    counts,          \* tag_counts, combo_counts of analyze_logs and the warnings on stderr
    pos,             \* the number of flow-log lines read by the for loop
    parsed,          \* what _parse_flow_log_line gave for each line read, in order
    output,          \* the output file: [exists, lines]
    exit_code        \* the exit status of the process, once pc = "exit"

inputs == <<argc, protocol_file, lookup_file, flow_log_file, output_writable>>

vars == <<argc, protocol_file, lookup_file, flow_log_file, output_writable,
          pc, protocol_map, tag_mappings, counts, pos, parsed, output, exit_code>>

NoFile == [exists |-> FALSE, lines |-> <<>>]

(***************************************************************************)
(* main and the methods it calls, one action per step.                     *)
(***************************************************************************)
Exit(code) == pc' = "exit" /\ exit_code' = code

\* main, lines 162-164: wrong number of arguments
Main_Usage ==
    /\ pc = "main"
    /\ argc # 4
    /\ Exit(1)
    /\ UNCHANGED <<inputs, protocol_map, tag_mappings, counts, pos, parsed, output>>

\* __init__, lines 19-23
Init_LoadProtocolMappings ==
    /\ pc = "main"
    /\ argc = 4
    /\ protocol_map' = load_protocol_mappings(protocol_file)
    /\ tag_mappings' = EmptyDict
    /\ pc' = "load_lookup"
    /\ UNCHANGED <<inputs, counts, pos, parsed, output, exit_code>>

\* __init__, line 24: _load_lookup_file returns
Init_LoadLookupFile ==
    /\ pc = "load_lookup"
    /\ LET r == load_lookup_file(lookup_file, protocol_map)
       IN  /\ r.raised = ""
           /\ tag_mappings' = r.tag_mappings
    /\ pc' = "analyze"
    /\ UNCHANGED <<inputs, protocol_map, counts, pos, parsed, output, exit_code>>

\* __init__, line 24: _load_lookup_file raises; main, lines 176-178
Init_LoadLookupFile_Raise ==
    /\ pc = "load_lookup"
    /\ LET r == load_lookup_file(lookup_file, protocol_map)
       IN  /\ r.raised # ""
           /\ tag_mappings' = r.tag_mappings
    /\ Exit(1)
    /\ UNCHANGED <<inputs, protocol_map, counts, pos, parsed, output>>

\* the size check with >= in place of >
file_too_large_inclusive(file_size) == file_size >= MAX_FILE_SIZE

\* analyze_logs, line 119: file_size > MAX_FILE_SIZE
file_too_large(file_size) == file_size > MAX_FILE_SIZE

\* analyze_logs, lines 115-126: the file is there and within the size limit
Analyze_Open ==
    /\ pc = "analyze"
    /\ flow_log_file.exists
    /\ ~file_too_large(flow_log_file.size)
    /\ counts' = NoCounts
    /\ pos' = 0
    /\ pc' = "lines"
    /\ UNCHANGED <<inputs, protocol_map, tag_mappings, parsed, output, exit_code>>

\* analyze_logs, line 118: os.path.getsize raises; main, lines 176-178
Analyze_NotFound ==
    /\ pc = "analyze"
    /\ ~flow_log_file.exists
    /\ Exit(1)
    /\ UNCHANGED <<inputs, protocol_map, tag_mappings, counts, pos, parsed, output>>

\* analyze_logs, lines 119-120: the file is too large; main, lines 176-178
Analyze_TooLarge ==
    /\ pc = "analyze"
    /\ flow_log_file.exists
    /\ file_too_large(flow_log_file.size)
    /\ Exit(1)
    /\ UNCHANGED <<inputs, protocol_map, tag_mappings, counts, pos, parsed, output>>

\* analyze_logs, lines 127-135: one iteration of the for loop
Analyze_Line ==
    /\ pc = "lines"
    /\ pos < Len(flow_log_file.lines)
    /\ LET line == flow_log_file.lines[pos + 1]
       IN  /\ parsed' = Append(parsed, parse_flow_log_line(protocol_map, line))
           /\ counts' = analyze_line(protocol_map, tag_mappings, counts, line)
    /\ pos' = pos + 1
    /\ UNCHANGED <<inputs, pc, protocol_map, tag_mappings, output, exit_code>>

\* analyze_logs, line 138: the loop is over
Analyze_Return ==
    /\ pc = "lines"
    /\ pos = Len(flow_log_file.lines)
    /\ pc' = "write"
    /\ UNCHANGED <<inputs, protocol_map, tag_mappings, counts, pos, parsed, output, exit_code>>

\* write_results, lines 146-156; main, line 174
Write_Results ==
    /\ pc = "write"
    /\ output_writable
    /\ output' = [exists |-> TRUE,
                  lines |-> write_results(counts.tag_counts, counts.combo_counts)]
    /\ Exit(0)
    /\ UNCHANGED <<inputs, protocol_map, tag_mappings, counts, pos, parsed>>

\* write_results, lines 158-159: open raises IOError; main, lines 176-178
Write_Results_Raise ==
    /\ pc = "write"
    /\ ~output_writable
    /\ Exit(1)
    /\ UNCHANGED <<inputs, protocol_map, tag_mappings, counts, pos, parsed, output>>

Next ==
    \/ Main_Usage
    \/ Init_LoadProtocolMappings
    \/ Init_LoadLookupFile
    \/ Init_LoadLookupFile_Raise
    \/ Analyze_Open
    \/ Analyze_NotFound
    \/ Analyze_TooLarge
    \/ Analyze_Line
    \/ Analyze_Return
    \/ Write_Results
    \/ Write_Results_Raise

(***************************************************************************)
(* The inputs of a run.                                                    *)
(***************************************************************************)
SeqsUpTo(S, n) == UNION {[1..k -> S] : k \in 0..n}

RECURSIVE Join(_)
\* " ".join(fields)
Join(fields) ==
    IF Len(fields) = 0 THEN <<>>
    ELSE IF Len(fields) = 1 THEN fields[1]
    ELSE fields[1] \o <<32>> \o Join(Tail(fields))

\* the fields of a flow-log record: version, five fields, dstport, protocol, the rest
FlowFields(n, version, dstport, protocol) ==
    [i \in 1..n |-> IF i = 1 THEN version
                    ELSE IF i = 7 THEN dstport
                    ELSE IF i = 8 THEN protocol
                    ELSE s_x]

\* a line as the file holds it, ended by a newline
FlowLine(n, version, dstport, protocol) ==
    Join(FlowFields(n, version, dstport, protocol)) \o <<10>>

RECURSIVE Bytes(_)
Bytes(lines) == IF Len(lines) = 0 THEN 0 ELSE Len(Head(lines)) + Bytes(Tail(lines))

FlowLog(lines) == [exists |-> TRUE, size |-> Bytes(lines), lines |-> lines]

FlowLogOfSize(lines, size) == [exists |-> TRUE, size |-> size, lines |-> lines]

NoFlowLog == [exists |-> FALSE, size |-> 0, lines |-> <<>>]

ProtoRow(number, name) ==
    [raises |-> FALSE, protocol_number |-> number, protocol_name |-> name]

RaisingRow == [raises |-> TRUE, protocol_number |-> <<>>, protocol_name |-> <<>>]

ProtoFile(rows) == [exists |-> TRUE, rows |-> rows]

NoProtoFile == [exists |-> FALSE, rows |-> <<>>]

LookupRow(dstport, protocol, tag) == [dstport |-> dstport, protocol |-> protocol, tag |-> tag]

LookupFile(rows) == [exists |-> TRUE, rows |-> rows]

NoLookupFile == [exists |-> FALSE, rows |-> <<>>]

Env(n, p, l, f, w) ==
    [argc |-> n, protocol_file |-> p, lookup_file |-> l, flow_log_file |-> f,
     output_writable |-> w]

\* the lookup file of the tests
TestLookup ==
    LookupFile(<<LookupRow(s_443, s_tcp, s_sv_P2), LookupRow(s_23, s_tcp, s_sv_P1),
                 LookupRow(s_25, s_tcp, s_sv_P1)>>)

\* the protocol file of the tests
TestProtoFile ==
    ProtoFile(<<ProtoRow(s_6, s_tcp), ProtoRow(s_17, s_udp), ProtoRow(s_1, s_icmp)>>)

ValidLine443 == FlowLine(14, s_2, s_443, s_6)

\* runs that end in each of the fatal ways
FatalEnvs ==
    {Env(3, NoProtoFile, TestLookup, FlowLog(<<ValidLine443>>), TRUE),
     Env(4, NoProtoFile, NoLookupFile, FlowLog(<<ValidLine443>>), TRUE),
     Env(4, NoProtoFile, LookupFile(<<LookupRow(s_http, s_tcp, s_sv_P1)>>),
         FlowLog(<<ValidLine443>>), TRUE),
     Env(4, NoProtoFile, TestLookup, NoFlowLog, TRUE),
     Env(4, NoProtoFile, TestLookup, FlowLogOfSize(<<ValidLine443>>, MAX_FILE_SIZE + 1), TRUE),
     Env(4, NoProtoFile, TestLookup, FlowLog(<<ValidLine443>>), FALSE)}

InitOver(envs) ==
    /\ \E e \in envs :
          /\ argc = e.argc
          /\ protocol_file = e.protocol_file
          /\ lookup_file = e.lookup_file
          /\ flow_log_file = e.flow_log_file
          /\ output_writable = e.output_writable
    /\ pc = "main"
    /\ protocol_map = EmptyDict
    /\ tag_mappings = EmptyDict
    /\ counts = NoCounts
    /\ pos = 0
    /\ parsed = <<>>
    /\ output = NoFile
    /\ exit_code = 0

(***************************************************************************)
(* Spec: flow logs of up to MaxLines lines drawn from LineSamples.         *)
(***************************************************************************)
LineSamples ==
    {FlowLine(14, s_2, s_443, s_6),      \* (443, tcp)
     FlowLine(14, s_2, s_23, s_6),       \* (23, tcp)
     FlowLine(15, s_2, s_25, s_6),       \* (25, tcp)
     FlowLine(14, s_2, s_9, s_17),       \* (9, udp)
     FlowLine(14, s_2, s_443, s_tcp),    \* protocol given by name
     FlowLine(13, s_2, s_443, s_6),      \* too few fields
     FlowLine(14, s_1, s_443, s_6),      \* version 1
     FlowLine(14, s_2, s_65536, s_6)}    \* port out of range

\* a lookup file that spells protocols by number and in upper case and uses the tag "Untagged"
MixedLookup ==
    LookupFile(<<LookupRow(s_443, s_TCP, s_Untagged), LookupRow(s_9, s_17, s_email),
                 LookupRow(s_23, s_6, s_Untagged)>>)

\* the protocol file and the lookup file of a run
TableSamples == {<<NoProtoFile, TestLookup>>, <<TestProtoFile, MixedLookup>>}

Envs ==
    {Env(4, t[1], t[2], FlowLog(ls), TRUE) :
        t \in TableSamples, ls \in SeqsUpTo(LineSamples, MaxLines)}
    \cup FatalEnvs

Init == InitOver(Envs)

Spec == Init /\ [][Next]_vars

(***************************************************************************)
(* Properties of analyze_logs, checked under Spec.                         *)
(***************************************************************************)
\* the lines the for loop has read so far
LinesRead == SubSeq(flow_log_file.lines, 1, pos)

\* what _parse_flow_log_line gave for the i-th line of the flow log
ParsedAt(i) == parsed[i]

\* the indices of the lines read so far that parsed
ParsedSoFar == {i \in 1..pos : ParsedAt(i).ok}

KeyAt(i) == <<ParsedAt(i).dst_port, ParsedAt(i).protocol>>

\* C1: after every prefix of the lines, the values of TagCounts and the values
\* of ComboCounts both sum to the number of lines read so far that parsed.
C1_TotalsAgree ==
    /\ Len(parsed) = pos
    /\ SumValues(counts.tag_counts) = Cardinality(ParsedSoFar)
    /\ SumValues(counts.combo_counts) = Cardinality(ParsedSoFar)

\* three lines read, two of them valid and one skipped
C1_Witness ==
    /\ pc = "lines"
    /\ pos = 3
    /\ Cardinality(ParsedSoFar) = 2
    /\ SumValues(counts.tag_counts) = 2
    /\ s_Untagged \in DOMAIN counts.tag_counts

\* the four rejection conditions as the claim C2 words them
C2_Rejected(line) ==
    LET fields == Split(Strip(line))
    IN  \/ Len(fields) < 14
        \/ fields[1] # s_2
        \/ ~PyInt(fields[7]).ok
        \/ PyInt(fields[7]).value < 0
        \/ PyInt(fields[7]).value > 65535
        \/ ~(IsDigit(fields[8]) \/ Lower(fields[8]) \in {s_tcp, s_udp, s_icmp})

\* C2: _parse_flow_log_line succeeds exactly when none of the four rejection
\* conditions holds (too few fields, version not "2", port not an integer in
\* [0, 65535], protocol neither all digits nor tcp/udp/icmp in any case), and
\* then returns (int(field 6), resolve(field 7)).
C2_ParseAcceptsExactly ==
    (pc = "lines" /\ pos > 0) =>
        LET line == flow_log_file.lines[pos]
            fields == Split(Strip(line))
        IN  /\ parsed[pos].ok <=> ~C2_Rejected(line)
            /\ parsed[pos].ok =>
                  /\ parsed[pos].dst_port = PyInt(fields[7]).value
                  /\ parsed[pos].protocol = normalize_protocol(protocol_map, fields[8])

\* the lines read so far without those that fail to parse
ValidLinesRead ==
    LET valid == ParsedSoFar
        Nth(n) == CHOOSE i \in valid : Cardinality({j \in valid : j < i}) = n - 1
    IN  [n \in 1..Cardinality(valid) |-> flow_log_file.lines[Nth(n)]]

\* C3: a line that fails to parse changes neither counter and does not stop the
\* run: after every prefix, and at the end, the counters are those of
\* analyze_logs run on the same lines with the invalid ones removed.
C3_InvalidLinesSkipped ==
    pc \in {"lines", "write"} =>
        LET ref == analyze_lines(protocol_map, tag_mappings, ValidLinesRead)
        IN  /\ counts.tag_counts = ref.tag_counts
            /\ counts.combo_counts = ref.combo_counts
            /\ counts.warnings = pos - Len(ValidLinesRead)

\* the run is over, an invalid line came first and a valid line after it was counted
C3_Witness ==
    /\ pc = "write"
    /\ pos = 3
    /\ ~ParsedAt(1).ok
    /\ ParsedAt(3).ok
    /\ counts.warnings = 2
    /\ SumValues(counts.combo_counts) = 1

\* classify: the tag of a key, Untagged when the lookup table has no entry
TagOf(key) == IF key \in DOMAIN tag_mappings THEN tag_mappings[key] ELSE s_Untagged

\* C6 as amended: after every prefix, ComboCounts[k] is the number of valid
\* lines with key k and TagCounts[t] is the number of valid lines whose key
\* classifies to t, where a key without a lookup entry classifies to
\* Untagged; so TagCounts[Untagged] also counts the lines whose lookup entry
\* carries the tag "Untagged".  With the lookup table of the tests and the
\* lines 443, 23, 25 of protocol 6 the result is {sv_P1: 2, sv_P2: 1}.
C6_CountsPerKeyAndTag ==
    LET keyed == {<<i, KeyAt(i)>> : i \in ParsedSoFar}
        tagged == {<<p[1], TagOf(p[2])>> : p \in keyed}
    IN  /\ DOMAIN counts.combo_counts = {p[2] : p \in keyed}
        /\ \A k \in DOMAIN counts.combo_counts :
              counts.combo_counts[k] = Cardinality({p \in keyed : p[2] = k})
        /\ DOMAIN counts.tag_counts = {p[2] : p \in tagged}
        /\ \A t \in DOMAIN counts.tag_counts :
              counts.tag_counts[t] = Cardinality({p \in tagged : p[2] = t})
        /\ (/\ pc = "write"
            /\ lookup_file = TestLookup
            /\ flow_log_file.lines = <<FlowLine(14, s_2, s_443, s_6),
                                       FlowLine(14, s_2, s_23, s_6),
                                       FlowLine(15, s_2, s_25, s_6)>>)
           => /\ counts.tag_counts = (s_sv_P1 :> 2) @@ (s_sv_P2 :> 1)
              /\ counts.combo_counts =
                    (<<443, s_tcp>> :> 1) @@ (<<23, s_tcp>> :> 1) @@ (<<25, s_tcp>> :> 1)

\* the same key counted twice under a lookup tag and another key counted as Untagged
C6_Witness ==
    /\ pc = "write"
    /\ pos = 3
    /\ <<443, s_tcp>> \in DOMAIN counts.combo_counts
    /\ counts.combo_counts[<<443, s_tcp>>] = 2
    /\ s_sv_P2 \in DOMAIN counts.tag_counts
    /\ counts.tag_counts[s_sv_P2] = 2
    /\ s_Untagged \in DOMAIN counts.tag_counts
    /\ counts.tag_counts[s_Untagged] = 1

\* C6 as claimed: TagCounts["Untagged"] is the number of valid lines whose key
\* has no lookup entry.
C6_UntaggedOnlyUnmatched ==
    DictGet(counts.tag_counts, s_Untagged, 0)
        = Cardinality({i \in ParsedSoFar : KeyAt(i) \notin DOMAIN tag_mappings})

(***************************************************************************)
(* SpecLookup: lookup files of up to MaxLookupRows rows that spell the     *)
(* same port and the same protocol in different ways.                      *)
(***************************************************************************)
LookupRowSamples ==
    {LookupRow(d, p, t) : d \in {s_443, s_0443}, p \in {s_tcp, s_TCP, s_6, s_udp},
                          t \in {s_sv_P1, s_sv_P2}}

LookupLogSamples ==
    {FlowLog(<<FlowLine(14, s_2, s_443, s_6)>>), FlowLog(<<FlowLine(14, s_2, s_443, s_17)>>)}

LookupEnvs ==
    {Env(4, NoProtoFile, LookupFile(rows), f, TRUE) :
        rows \in SeqsUpTo(LookupRowSamples, MaxLookupRows), f \in LookupLogSamples}
    \cup {Env(4, TestProtoFile, LookupFile(rows), FlowLog(<<ValidLine443>>), TRUE) :
        rows \in SeqsUpTo(LookupRowSamples, MaxLookupRows)}
    \cup FatalEnvs

InitLookup == InitOver(LookupEnvs)

SpecLookup == InitLookup /\ [][Next]_vars

\* _load_lookup_file has returned
LookupLoaded == pc \in {"analyze", "lines", "write"}

\* the key under which the i-th row of the lookup file is stored
LookupKey(i) ==
    <<PyInt(lookup_file.rows[i].dstport).value,
      normalize_protocol(protocol_map, lookup_file.rows[i].protocol)>>

\* the rows after which no row has the same key
LastOfKey == {i \in 1..Len(lookup_file.rows) :
                 \A j \in (i + 1)..Len(lookup_file.rows) : LookupKey(j) # LookupKey(i)}

\* C5: of the lookup entries with equal (port, normalized protocol) keys, also
\* when they spell the protocol differently, tag_mappings holds the tag of the
\* one that comes last, and a record with that key is counted under that tag.
C5_LastEntryWins ==
    LookupLoaded =>
        /\ DOMAIN tag_mappings = {LookupKey(i) : i \in LastOfKey}
        /\ \A i \in LastOfKey : tag_mappings[LookupKey(i)] = lookup_file.rows[i].tag
        /\ \A i \in LastOfKey :
              (pos = 1 /\ parsed[1].ok /\ KeyAt(1) = LookupKey(i))
                  => counts.tag_counts = (lookup_file.rows[i].tag :> 1)

\* "443,TCP,sv_P1" then "0443,6,sv_P2": the record (443, tcp) is counted as sv_P2
C5_Witness ==
    /\ pc = "write"
    /\ Len(lookup_file.rows) = 2
    /\ lookup_file.rows[1] = LookupRow(s_443, s_TCP, s_sv_P1)
    /\ lookup_file.rows[2] = LookupRow(s_0443, s_6, s_sv_P2)
    /\ tag_mappings = (<<443, s_tcp>> :> s_sv_P2)
    /\ pos = 1
    /\ counts.tag_counts = (s_sv_P2 :> 1)

(***************************************************************************)
(* SpecProto: protocol files of up to MaxProtoRows rows, some of which     *)
(* repeat a number, give a name in upper case, or cannot be read.          *)
(***************************************************************************)
ProtoRowSamples ==
    {ProtoRow(n, m) : n \in {s_6, s_17}, m \in {s_tcp, s_TCP, s_udp}} \cup {RaisingRow}

ProtoEnvs ==
    {Env(4, pf, l, FlowLog(<<line>>), TRUE) :
        pf \in {ProtoFile(rows) : rows \in SeqsUpTo(ProtoRowSamples, MaxProtoRows)}
               \cup {NoProtoFile},
        l \in {TestLookup, MixedLookup},
        line \in {FlowLine(14, s_2, s_443, s_6), FlowLine(14, s_2, s_9, s_17)}}
    \cup FatalEnvs

InitProto == InitOver(ProtoEnvs)

SpecProto == InitProto /\ [][Next]_vars

\* _load_protocol_mappings has returned
ProtoLoaded == pc \in {"load_lookup", "analyze", "lines", "write"}

\* the protocol file is there and every row of it can be read
ProtoFileParses ==
    /\ protocol_file.exists
    /\ \A i \in 1..Len(protocol_file.rows) : ~protocol_file.rows[i].raises

TokenSamples == {s_6, s_17, s_1, s_tcp, s_TCP, s_Tcp, s_udp, s_gre, s_47}

\* C4: under every active protocol map, normalization is idempotent, does not
\* depend on letter case and gives a lowercase name; a token absent from the
\* map is returned lowercased; under the built-in map "TCP", "tcp" and "6"
\* all give "tcp".
C4_NormalizeIdempotent ==
    ProtoLoaded =>
        /\ \A t \in TokenSamples :
              LET r == normalize_protocol(protocol_map, t)
              IN  /\ normalize_protocol(protocol_map, r) = r
                  /\ r = Lower(r)
                  /\ Lower(t) \notin DOMAIN protocol_map => r = Lower(t)
                  /\ \A u \in TokenSamples :
                        Lower(u) = Lower(t) => normalize_protocol(protocol_map, u) = r
        /\ protocol_map = DEFAULT_PROTOCOL_MAP =>
              /\ normalize_protocol(protocol_map, s_TCP) = s_tcp
              /\ normalize_protocol(protocol_map, s_tcp) = s_tcp
              /\ normalize_protocol(protocol_map, s_6) = s_tcp

\* the writes of the for loop in source order: number -> name, then name -> name
ProtoWrites ==
    [j \in 1..(2 * Len(protocol_file.rows)) |->
        LET row == protocol_file.rows[(j + 1) \div 2]
        IN  IF j % 2 = 1 THEN <<row.protocol_number, row.protocol_name>>
            ELSE <<row.protocol_name, row.protocol_name>>]

\* C10 as claimed: a protocol file that parses gives a map holding, for each
\* row, number -> name and name -> name, and no built-in entry the file does
\* not list; an absent file or one that fails to parse gives the built-in map.
C10_EveryRowTwoEntries ==
    ProtoLoaded =>
        IF ProtoFileParses
        THEN /\ \A i \in 1..Len(protocol_file.rows) :
                   LET row == protocol_file.rows[i]
                   IN  /\ row.protocol_number \in DOMAIN protocol_map
                       /\ protocol_map[row.protocol_number] = row.protocol_name
                       /\ row.protocol_name \in DOMAIN protocol_map
                       /\ protocol_map[row.protocol_name] = row.protocol_name
             /\ \A k \in DOMAIN DEFAULT_PROTOCOL_MAP :
                   k \in DOMAIN protocol_map =>
                       \E j \in 1..Len(ProtoWrites) : ProtoWrites[j][1] = k
        ELSE protocol_map = DEFAULT_PROTOCOL_MAP

\* C10 as amended: a protocol file that parses gives the map whose keys are
\* the numbers and names of its rows, each key holding the name of the last
\* write to it (a later row with the same number or name overwrites an earlier
\* one), with no built-in entry the file does not list; an absent file or one
\* that fails to parse at any row gives exactly the built-in map, so that "17"
\* normalizes to "udp".
C10_LastWritePerKey ==
    ProtoLoaded =>
        IF ProtoFileParses
        THEN /\ DOMAIN protocol_map = {ProtoWrites[j][1] : j \in 1..Len(ProtoWrites)}
             /\ \A j \in 1..Len(ProtoWrites) :
                   (\A k \in (j + 1)..Len(ProtoWrites) : ProtoWrites[k][1] # ProtoWrites[j][1])
                       => protocol_map[ProtoWrites[j][1]] = ProtoWrites[j][2]
        ELSE /\ protocol_map = (s_6 :> s_tcp) @@ (s_17 :> s_udp) @@ (s_1 :> s_icmp)
             /\ normalize_protocol(protocol_map, s_17) = s_udp

\* "6,tcp" then "6,udp": the second row's entry for "6" replaces the first's
C10_Witness ==
    /\ ProtoLoaded
    /\ protocol_file = ProtoFile(<<ProtoRow(s_6, s_tcp), ProtoRow(s_6, s_udp)>>)
    /\ protocol_map = (s_6 :> s_udp) @@ (s_tcp :> s_tcp) @@ (s_udp :> s_udp)

(***************************************************************************)
(* SpecWrite: flow logs whose keys differ in port and, for one port, in    *)
(* protocol, so that the report has several rows to order.                 *)
(***************************************************************************)
WriteLineSamples ==
    {FlowLine(14, s_2, s_443, s_6),      \* (443, tcp)
     FlowLine(14, s_2, s_443, s_17),     \* (443, udp)
     FlowLine(14, s_2, s_9, s_6),        \* (9, tcp)
     FlowLine(14, s_2, s_23, s_17),      \* (23, udp)
     FlowLine(13, s_2, s_443, s_6)}      \* too few fields

WriteLookup ==
    LookupFile(<<LookupRow(s_443, s_tcp, s_email), LookupRow(s_9, s_tcp, s_sv_P1)>>)

WriteEnvs ==
    {Env(4, NoProtoFile, l, FlowLog(ls), TRUE) :
        l \in {WriteLookup, TestLookup}, ls \in SeqsUpTo(WriteLineSamples, MaxLines)}
    \cup FatalEnvs

InitWrite == InitOver(WriteEnvs)

SpecWrite == InitWrite /\ [][Next]_vars

\* C8: the report holds the tag section and then the port/protocol section,
\* one data row per entry of each mapping and no other data row; tag rows
\* ascend by tag in code-point order, combination rows ascend by port as a
\* number and, for equal ports, by protocol.
C8_ReportSorted ==
    (pc = "exit" /\ output.exists) =>
        LET L == output.lines
            n == Cardinality(DOMAIN counts.tag_counts)
            m == Cardinality(DOMAIN counts.combo_counts)
            TagAt(i) == L[2 + i].fields[1]
            KeyOfRow(i) == <<PyInt(L[n + 5 + i].fields[1]).value, L[n + 5 + i].fields[2]>>
        IN  /\ Len(L) = n + m + 5
            /\ L[1] = HeaderLine("Tag Counts:")
            /\ L[2] = HeaderLine("Tag,Count")
            /\ L[n + 3] = HeaderLine("")
            /\ L[n + 4] = HeaderLine("Port/Protocol Combination Counts:")
            /\ L[n + 5] = HeaderLine("Port,Protocol,Count")
            /\ {TagAt(i) : i \in 1..n} = DOMAIN counts.tag_counts
            /\ \A i \in 1..n :
                  /\ L[2 + i].text = ""
                  /\ L[2 + i].fields = <<TagAt(i), PyStr(counts.tag_counts[TagAt(i)])>>
            /\ \A i \in 1..(n - 1) : StrLess(TagAt(i), TagAt(i + 1))
            /\ {KeyOfRow(i) : i \in 1..m} = DOMAIN counts.combo_counts
            /\ \A i \in 1..m :
                  /\ L[n + 5 + i].text = ""
                  /\ Len(L[n + 5 + i].fields) = 3
                  /\ L[n + 5 + i].fields[1] = PyStr(KeyOfRow(i)[1])
                  /\ L[n + 5 + i].fields[3] = PyStr(counts.combo_counts[KeyOfRow(i)])
            /\ \A i \in 1..(m - 1) :
                  \/ KeyOfRow(i)[1] < KeyOfRow(i + 1)[1]
                  \/ /\ KeyOfRow(i)[1] = KeyOfRow(i + 1)[1]
                     /\ StrLess(KeyOfRow(i)[2], KeyOfRow(i + 1)[2])

\* the report of (9,tcp), (443,tcp), (443,udp): tags Untagged < email < sv_P1
C8_Witness ==
    /\ pc = "exit"
    /\ output.exists
    /\ Len(output.lines) = 11
    /\ output.lines[3].fields = <<s_Untagged, s_1>>
    /\ output.lines[4].fields = <<s_email, s_1>>
    /\ output.lines[5].fields = <<s_sv_P1, s_1>>
    /\ output.lines[9].fields = <<s_9, s_tcp, s_1>>
    /\ output.lines[10].fields = <<s_443, s_tcp, s_1>>
    /\ output.lines[11].fields = <<s_443, s_udp, s_1>>

(***************************************************************************)
(* SpecMain: runs of main over every combination of the fatal conditions   *)
(* and sizes around the limit.  The size is what os.path.getsize answers;  *)
(* the lines are those the for loop would read.                            *)
(***************************************************************************)
MainLookupSamples ==
    {NoLookupFile, TestLookup,
     LookupFile(<<LookupRow(s_443, s_tcp, s_sv_P2), LookupRow(s_http, s_tcp, s_sv_P1)>>)}

MainLineSamples ==
    {<<>>, <<ValidLine443>>, <<FlowLine(13, s_2, s_443, s_6), ValidLine443>>}

MainFlowLogSamples ==
    {FlowLogOfSize(ls, size) :
        ls \in MainLineSamples,
        size \in {MAX_FILE_SIZE - 1, MAX_FILE_SIZE, MAX_FILE_SIZE + 1}}
    \cup {NoFlowLog}

MainEnvs ==
    {Env(n, pf, l, f, w) :
        n \in {3, 4}, pf \in {NoProtoFile, ProtoFile(<<RaisingRow>>)},
        l \in MainLookupSamples, f \in MainFlowLogSamples, w \in BOOLEAN}

InitMain == InitOver(MainEnvs)

SpecMain == InitMain /\ [][Next]_vars

\* the fatal conditions C9 names
FatalCondition ==
    \/ ~lookup_file.exists
    \/ \E i \in 1..Len(lookup_file.rows) : ~PyInt(lookup_file.rows[i].dstport).ok
    \/ ~flow_log_file.exists
    \/ flow_log_file.size > 10 * 1024 * 1024

\* C9: under a fatal condition (lookup file absent, a lookup port that is no
\* integer, flow log absent or larger than 10 MiB) no flow-log line is ever
\* parsed, write_results is never reached, no output file is created and the
\* exit code is not 0; without one, a flow log of at most 10 MiB is read to
\* its end whatever lines fail to parse, and the run exits with 0 and a report
\* whenever the output file can be written.
C9_FatalAborts ==
    /\ FatalCondition =>
          /\ pos = 0
          /\ parsed = <<>>
          /\ pc \notin {"lines", "write"}
          /\ ~output.exists
          /\ pc = "exit" => exit_code # 0
    /\ (~FatalCondition /\ argc = 4 /\ pc = "exit") =>
          /\ pos = Len(flow_log_file.lines)
          /\ exit_code = 0 <=> output_writable
          /\ output.exists <=> output_writable

\* a flow log one byte over the limit: exit code 1, nothing parsed, no report
C9_Witness ==
    /\ pc = "exit"
    /\ exit_code = 1
    /\ argc = 4
    /\ lookup_file = TestLookup
    /\ flow_log_file.size = MAX_FILE_SIZE + 1
    /\ Len(flow_log_file.lines) = 2
    /\ output_writable
    /\ pos = 0
    /\ ~output.exists

(***************************************************************************)
(* SpecOrder: flow logs of up to MaxLines lines, valid and invalid, whose  *)
(* every reordering is also a flow log of the specification.               *)
(***************************************************************************)
OrderLineSamples ==
    {FlowLine(14, s_2, s_443, s_6),      \* (443, tcp)
     FlowLine(14, s_2, s_23, s_6),       \* (23, tcp)
     FlowLine(14, s_2, s_9, s_17),       \* (9, udp)
     FlowLine(14, s_2, s_443, s_tcp),    \* protocol given by name
     FlowLine(13, s_2, s_443, s_6)}      \* too few fields

OrderEnvs ==
    {Env(4, t[1], t[2], FlowLog(ls), TRUE) :
        t \in TableSamples, ls \in SeqsUpTo(OrderLineSamples, MaxLines)}
    \cup FatalEnvs

InitOrder == InitOver(OrderEnvs)

SpecOrder == InitOrder /\ [][Next]_vars

\* the orders in which n lines can be arranged
Perms(n) == {f \in [1..n -> 1..n] : \A i, j \in 1..n : f[i] = f[j] => i = j}

\* C7: the counters analyze_logs returns do not depend on the order of the
\* lines: every permutation of the flow log gives the same two mappings.
C7_OrderIndependent ==
    pc = "write" =>
        \A f \in Perms(Len(flow_log_file.lines)) :
            LET permuted == [i \in 1..Len(flow_log_file.lines) |-> flow_log_file.lines[f[i]]]
                other == analyze_lines(protocol_map, tag_mappings, permuted)
            IN  /\ other.tag_counts = counts.tag_counts
                /\ other.combo_counts = counts.combo_counts

\* a run over three different lines, valid and invalid mixed
C7_Witness ==
    /\ pc = "write"
    /\ pos = 3
    /\ Cardinality({flow_log_file.lines[i] : i \in 1..3}) = 3
    /\ ParsedAt(1).ok
    /\ ~ParsedAt(2).ok
    /\ ParsedAt(3).ok
    /\ Cardinality(DOMAIN counts.tag_counts) = 2

\* the protocol token (field 7) of the i-th line of the flow log
ProtocolTokenAt(i) == Split(Strip(flow_log_file.lines[i]))[8]

\* tokens a and b denote the same protocol under the active map: the same
\* token up to letter case, or one a number and the other the name the map
\* gives that number, up to letter case
SameProtocol(a, b) ==
    \/ Lower(a) = Lower(b)
    \/ IsDigit(b) /\ b \in DOMAIN protocol_map /\ Lower(a) = Lower(protocol_map[b])
    \/ IsDigit(a) /\ a \in DOMAIN protocol_map /\ Lower(b) = Lower(protocol_map[a])

\* C11: under every active protocol map, an accepted record with port p and
\* protocol token b and a lookup entry (p, a, tag) whose token a denotes the
\* same protocol as b have the same key, so the record is classified by a
\* lookup entry and counted under the tag stored for that key.
C11_SameCanonicalKey ==
    pc \in {"lines", "write"} =>
        \A n \in ParsedSoFar : \A i \in 1..Len(lookup_file.rows) :
            (/\ PyInt(lookup_file.rows[i].dstport).value = parsed[n].dst_port
             /\ SameProtocol(lookup_file.rows[i].protocol, ProtocolTokenAt(n)))
                => /\ KeyAt(n) = LookupKey(i)
                   /\ KeyAt(n) \in DOMAIN tag_mappings
                   /\ tag_mappings[KeyAt(n)] \in DOMAIN counts.tag_counts

====
